---- MODULE Spec2Model ----
(***************************************************************************)
(* EditorService (editor.service.tsx): the per-resource editing state of   *)
(* the studio - text models, view states, diagnostic decorations - and the *)
(* debounced hand-over of edits to the parser.                             *)
(*                                                                         *)
(* The monaco editor is a collaborator.  What the model states about it:   *)
(*   - an editor shows at most one text model; setModel(m) gives a fresh   *)
(*     view, saveViewState()/restoreViewState() read and write that view;  *)
(*   - disposing a text model detaches it from the editor showing it and   *)
(*     drops the decorations it holds;                                     *)
(*   - editor.deltaDecorations(old, new) works on the model the editor     *)
(*     shows: it removes those of `old` that this model holds, adds `new`  *)
(*     and returns the ids of the added ones ([] with no model shown);     *)
(*   - setModelMarkers(model, owner, ms) replaces the markers `owner` set  *)
(*     on the resource of `model`;                                         *)
(*   - onDidChangeModelContent listeners run on every change of the text   *)
(*     of the model the editor shows.                                      *)
(***************************************************************************)
EXTENDS Integers, Sequences, FiniteSets, TLC

\* ------------------------------------------------------------- bounds
MaxModels == 2      \* text models ever created per resource
MaxStale == 1       \* pending timers of disposed content-change subscriptions
MaxDecos == 2       \* decorations the text models hold, all together
MaxDiags == 2       \* length of a diagnostics list handed to the pure function

\* ------------------------------------------------------------- domains
Ids == {"a", "b"}                       \* resource uris (file.uri, tab.uri, document.uri)
NoModel == <<>>                         \* undefined / null text model
Handles == Ids \X (1..MaxModels)        \* a text model: its resource and a serial
Contents == {"c0", "c1"}
FileContent == "c0"                     \* what the files service holds for a file
Views == {"v0", "v1"}
FreshView == "v0"                       \* the view of an editor right after setModel
NoView == "none"
Governances == {"g0", "g1"}
Delays == {"d625", "d1000"}             \* settings.editor.savingDelay
Severities == {"error", "warning", "information", "hint", "other"}
Messages == {"m"}
Coords == {0, 1}                        \* zero-based lines and characters

\* the diagnostics of the parser: a severity, a message and a range whose end is not
\* before its start
Diagnostics ==
  {d \in [severity : Severities, message : Messages, startLine : Coords,
          startCharacter : Coords, endLine : Coords, endCharacter : Coords] :
     \/ d.startLine < d.endLine
     \/ d.startLine = d.endLine /\ d.startCharacter <= d.endCharacter}

RECURSIVE SeqsUpTo(_, _)
SeqsUpTo(S, n) ==
  IF n = 0 THEN {<<>>}
  ELSE LET shorter == SeqsUpTo(S, n - 1)
       IN shorter \cup {Append(s, x) : s \in {t \in shorter : Len(t) = n - 1}, x \in S}

Range(s) == {s[i] : i \in 1..Len(s)}

\* ------------------------------------------------------------- pure functions

\* getSeverity: DiagnosticSeverity to monaco MarkerSeverity
getSeverity(severity) ==
  CASE severity = "error" -> "MarkerSeverity.Error"
    [] severity = "warning" -> "MarkerSeverity.Warning"
    [] severity = "information" -> "MarkerSeverity.Info"
    [] severity = "hint" -> "MarkerSeverity.Hint"
    [] OTHER -> "MarkerSeverity.Error"

\* getSeverityClassName
getSeverityClassName(severity) ==
  CASE severity = "warning" -> "diagnostic-warning"
    [] severity = "information" -> "diagnostic-information"
    [] severity = "hint" -> "diagnostic-hint"
    [] OTHER -> "diagnostic-warning"

\* only the three severities with a glyph class go to the decorations
isDecoration_known(severity) == severity \in {"warning", "information", "hint"}

\* the test that sends a diagnostic to the decorations (severity !== Error)
isDecoration(severity) == severity # "error"

\* a projection that keeps the zero-based coordinate
oneBased_unshifted(n) == n

\* the one-based projection of a zero-based coordinate
oneBased(n) == n + 1

\* new Range(...) of a decoration / the four coordinates of a marker
newDecoration(diagnostic, idx) ==
  [id |-> <<getSeverityClassName(diagnostic.severity), idx>>,
   ownerId |-> 0,
   range |-> <<oneBased(diagnostic.startLine), oneBased(diagnostic.startCharacter),
               oneBased(diagnostic.endLine), oneBased(diagnostic.endCharacter)>>,
   glyphMarginClassName |-> getSeverityClassName(diagnostic.severity),
   glyphMarginHoverMessage |-> diagnostic.message]

newMarker(diagnostic) ==
  [startLineNumber |-> oneBased(diagnostic.startLine),
   startColumn |-> oneBased(diagnostic.startCharacter),
   endLineNumber |-> oneBased(diagnostic.endLine),
   endColumn |-> oneBased(diagnostic.endCharacter),
   severity |-> getSeverity(diagnostic.severity),
   message |-> diagnostic.message]

\* diagnostics.forEach((diagnostic, idx) => ...): idx is zero-based
RECURSIVE forEachDiagnostic(_, _, _)
forEachDiagnostic(diagnostics, i, acc) ==
  IF i > Len(diagnostics) THEN acc
  ELSE LET diagnostic == diagnostics[i]
       IN IF isDecoration(diagnostic.severity)
          THEN forEachDiagnostic(diagnostics, i + 1,
                 [acc EXCEPT !.decorations = Append(@, newDecoration(diagnostic, i - 1))])
          ELSE forEachDiagnostic(diagnostics, i + 1,
                 [acc EXCEPT !.markers = Append(@, newMarker(diagnostic))])

createMarkersAndDecorations(diagnostics) ==
  forEachDiagnostic(diagnostics, 1, [decorations |-> <<>>, markers |-> <<>>])

\* ------------------------------------------------------------- state
VARIABLES
  isCreated,         \* EditorService.isCreated; the editor instance exists from then on
  initialized,       \* appState.initialized
  files,             \* the uris the files service knows (filesSvc.getFile)
  settings,          \* settingsSvc.get()
  models,            \* EditorService.models: uri -> text model
  viewStates,        \* EditorService.viewStates: model uri string -> view state
  decorations,       \* EditorService.decorations: uri -> decoration ids
  created,           \* text models created so far, per resource
  disposals,         \* how many times each text model was disposed
  content,           \* the text of each text model
  editorModel,       \* editor.getModel()
  editorView,        \* the cursor / scroll state the editor shows
  modelDecorations,  \* the decorations each text model holds
  markers,           \* the markers set on each resource
  listeners,         \* number of live onDidChangeModelContent subscriptions
  debouncer,         \* the debounced handler of the live subscription: its delay, its timer
  staleTimers,       \* pending timers of the debounced handlers of disposed subscriptions
  burst,             \* history: the content changes the pending timers stand for: the
                     \* text model of the last one and its text then, whether a timer
                     \* was pending at one of them (coalesced), whether two timers were
                     \* ever pending (mixed); and, right after a timer fired (done),
                     \* whether it was the only one, of an unmixed burst, with the
                     \* edited model still shown (clean)
  parsed,            \* the parserSvc.parse calls the last handler made
  leftWith,          \* history: the view the editor showed when it last left a text model
  diagnosticsIn,     \* argument of createMarkersAndDecorations
  produced           \* result of createMarkersAndDecorations

vars ==
  <<isCreated, initialized, files, settings, models, viewStates, decorations, created,
    disposals, content, editorModel, editorView, modelDecorations, markers, listeners,
    debouncer, staleTimers, burst, parsed, leftWith, diagnosticsIn, produced>>

\* the program state as one value, threaded through the handlers; a handler starts
\* with no parse call made
State ==
  [isCreated |-> isCreated, initialized |-> initialized, files |-> files,
   settings |-> settings, models |-> models, viewStates |-> viewStates,
   decorations |-> decorations, created |-> created, disposals |-> disposals,
   content |-> content, editorModel |-> editorModel, editorView |-> editorView,
   modelDecorations |-> modelDecorations, markers |-> markers,
   listeners |-> listeners, debouncer |-> debouncer, staleTimers |-> staleTimers,
   parsed |-> <<>>]

Becomes(s) ==
  /\ isCreated' = s.isCreated
  /\ initialized' = s.initialized
  /\ files' = s.files
  /\ settings' = s.settings
  /\ models' = s.models
  /\ viewStates' = s.viewStates
  /\ decorations' = s.decorations
  /\ created' = s.created
  /\ disposals' = s.disposals
  /\ content' = s.content
  /\ editorModel' = s.editorModel
  /\ editorView' = s.editorView
  /\ modelDecorations' = s.modelDecorations
  /\ markers' = s.markers
  /\ listeners' = s.listeners
  /\ debouncer' = s.debouncer
  /\ staleTimers' = s.staleTimers
  /\ parsed' = s.parsed

UriStrings == {"file:///" \o id : id \in Ids}
NoDebouncer == [delay |-> "none", pending |-> FALSE]
NoBurst ==
  [edited |-> NoModel, content |-> "none", coalesced |-> FALSE, mixed |-> FALSE,
   done |-> FALSE, clean |-> FALSE]

\* ------------------------------------------------------------- the monaco editor

\* model.uri.toString() of the model created with monaco.Uri.parse(file.uri)
uriToString(model) == "file:///" \o model[1]

\* editor.setModel(model)
setModel(s, model) ==
  IF s.editorModel = model THEN s
  ELSE [s EXCEPT !.editorModel = model, !.editorView = FreshView]

\* a snapshot taken once the editor shows the new model: its fresh view
saveViewState_afterRebinding(s) == FreshView

\* editor.saveViewState()
saveViewState(s) == s.editorView

\* editor.restoreViewState(viewState)
restoreViewState(s, viewState) == [s EXCEPT !.editorView = viewState]

\* model.dispose()
dispose(s, model) ==
  [s EXCEPT !.disposals[model] = @ + 1,
            !.content[model] = FileContent,
            !.modelDecorations[model] = {},
            !.editorModel = IF @ = model THEN NoModel ELSE @,
            !.editorView = IF s.editorModel = model THEN FreshView ELSE @]

\* monaco.editor.setModelMarkers(model, owner, markers), owner being the model's resource
setModelMarkers(s, model, newMarkers) == [s EXCEPT !.markers[model[1]] = newMarkers]

\* the n smallest decoration serials a text model does not use
RECURSIVE freeSerials(_, _, _)
freeSerials(used, n, from) ==
  IF n = 0 THEN <<>>
  ELSE IF from \in used THEN freeSerials(used, n, from + 1)
  ELSE <<from>> \o freeSerials(used, n - 1, from + 1)

\* editor.deltaDecorations(oldDecorations, newDecorations)
deltaDecorations(s, oldDecorations, newDecorations) ==
  IF s.editorModel = NoModel THEN [state |-> s, ids |-> <<>>]
  ELSE LET model == s.editorModel
           kept == {d \in s.modelDecorations[model] :
                      <<model, d.serial>> \notin Range(oldDecorations)}
           serials == freeSerials({d.serial : d \in kept}, Len(newDecorations), 1)
           added == {[serial |-> serials[i], options |-> newDecorations[i]] :
                       i \in 1..Len(newDecorations)}
       IN [state |-> [s EXCEPT !.modelDecorations[model] = kept \cup added],
           ids |-> [i \in 1..Len(newDecorations) |-> <<model, serials[i]>>]]

\* ------------------------------------------------------------- helpers (../helpers)

\* isDeepEqual(a, b)
isDeepEqual(a, b) == a = b

\* debounce(fn, delay): the function it returns
debounce(delay) == [delay |-> delay, pending |-> FALSE]

\* a call of the debounced function: a pending timer is cancelled, a new one started
debounced(s) == [s EXCEPT !.debouncer.pending = TRUE]

\* the timer of the debounced function has fired: it is pending no more
fired(s) == [s EXCEPT !.debouncer.pending = FALSE]

\* ------------------------------------------------------------- EditorService

\* this.editor?.getModel()
getCurrentModel(s) == IF s.isCreated THEN s.editorModel ELSE NoModel

\* a createModel that does not ask the files service for the file
createModel_anyFile(s, uri) ==
  IF s.models[uri] # NoModel THEN [state |-> s, model |-> NoModel]
  ELSE LET model == <<uri, s.created[uri] + 1>>
       IN [state |-> [s EXCEPT !.models[uri] = model,
                               !.created[uri] = @ + 1,
                               !.content[model] = FileContent],
           model |-> model]

\* createModel(uri): the model it returns and the state it leaves
createModel(s, uri) ==
  IF s.models[uri] # NoModel THEN [state |-> s, model |-> NoModel]
  ELSE IF uri \notin s.files THEN [state |-> s, model |-> NoModel]
  ELSE LET model == <<uri, s.created[uri] + 1>>
       IN [state |-> [s EXCEPT !.models[uri] = model,
                               !.created[uri] = @ + 1,
                               !.content[model] = FileContent],
           model |-> model]

\* a getModel that does not consult the cache
getModel_skipsCache(s, uri) == createModel(s, uri)

\* getModel(uri)
getModel(s, uri) ==
  IF s.models[uri] # NoModel THEN [state |-> s, model |-> s.models[uri]]
  ELSE createModel(s, uri)

\* a removeModel that disposes the model and leaves it in the cache
removeModel_keepsEntry(s, uri) ==
  LET model == s.models[uri]
  IN IF model = NoModel THEN s ELSE dispose(s, model)

\* a removeModel that evicts the model without disposing it
removeModel_noDispose(s, uri) == [s EXCEPT !.models[uri] = NoModel]

\* removeModel(uri)
removeModel(s, uri) ==
  LET model == s.models[uri]
  IN IF model = NoModel THEN s
     ELSE [dispose(s, model) EXCEPT !.models[uri] = NoModel]

\* the view state of the old model saved under the new tab's uri
savedUnder_newTab(oldModel, newTabUri) == "file:///" \o newTabUri

\* the key onChangeTab saves the view state of the old model under
savedUnder(oldModel, newTabUri) == uriToString(oldModel)

\* onChangeTab(newTab).  With no editor yet, this.editor.setModel throws once the model
\* was found or created.
onChangeTab(s, newTabUri) ==
  LET oldModel == getCurrentModel(s)
      s1 == IF oldModel # NoModel
            THEN [s EXCEPT !.viewStates[savedUnder(oldModel, newTabUri)] = saveViewState(s)]
            ELSE s
      got == getModel(s1, newTabUri)
      model == got.model
  IN IF model = NoModel \/ ~s.isCreated THEN got.state
     ELSE LET s2 == setModel(got.state, model)
              restoredViewState == s2.viewStates[uriToString(model)]
          IN IF restoredViewState # NoView
             THEN restoreViewState(s2, restoredViewState)
             ELSE s2

\* applyMarkersAndDecorations(document)
applyMarkersAndDecorations(s, uri, diagnostics) ==
  LET got == getModel(s, uri)
      model == got.model
  IN IF model = NoModel \/ ~s.isCreated THEN got.state
     ELSE LET made == createMarkersAndDecorations(diagnostics)
              s1 == setModelMarkers(got.state, model, made.markers)
              delta == deltaDecorations(s1, s1.decorations[uri], made.decorations)
          IN [delta.state EXCEPT !.decorations[uri] = delta.ids]

\* a removeMarkersAndDecorations that takes the model from the cache alone
removeMarkersAndDecorations_cachedOnly(s, uri) ==
  LET model == s.models[uri]
  IN IF model = NoModel \/ ~s.isCreated THEN s
     ELSE LET s1 == setModelMarkers(s, model, <<>>)
              delta == deltaDecorations(s1, s1.decorations[uri], <<>>)
          IN [delta.state EXCEPT !.decorations[uri] = delta.ids]

\* removeMarkersAndDecorations(document)
removeMarkersAndDecorations(s, uri) ==
  LET got == getModel(s, uri)
      model == got.model
  IN IF model = NoModel \/ ~s.isCreated THEN got.state
     ELSE LET s1 == setModelMarkers(got.state, model, <<>>)
              delta == deltaDecorations(s1, s1.decorations[uri], <<>>)
          IN [delta.state EXCEPT !.decorations[uri] = delta.ids]

\* a callback that never calls the parser
onChangeContentCallback_noCall(s) == s

\* a callback that hands the parser the text the files service holds
onChangeContentCallback_fileContent(s) ==
  LET model == getCurrentModel(s)
  IN IF model # NoModel
     THEN [s EXCEPT !.parsed = Append(@, [uri |-> uriToString(model), content |-> FileContent])]
     ELSE s

\* the function onChangeContent hands to debounce
onChangeContentCallback(s) ==
  LET model == getCurrentModel(s)
  IN IF model # NoModel
     THEN [s EXCEPT !.parsed =
             Append(@, [uri |-> uriToString(model), content |-> s.content[model]])]
     ELSE s

\* onChangeContent(settings): the debounced handler, its delay read from `settings`
onChangeContent(settingsRead) == debounce(settingsRead.savingDelay)

\* editor.onDidChangeModelContent(this.onChangeContent(settingsSvc.get()).bind(this))
subscribe(s) ==
  [s EXCEPT !.listeners = @ + 1, !.debouncer = onChangeContent(s.settings)]

\* a dispose that leaves the listener registered
unsubscribe_keepsListener(s) ==
  [s EXCEPT !.debouncer = NoDebouncer,
            !.staleTimers = IF s.debouncer.pending THEN @ + 1 ELSE @]

\* unsubscribe.dispose(): the listener is gone, a timer its handler started is not
unsubscribe(s) ==
  [s EXCEPT !.listeners = @ - 1,
            !.debouncer = NoDebouncer,
            !.staleTimers = IF s.debouncer.pending THEN @ + 1 ELSE @]

\* configureEditor()
configureEditor(s) == subscribe(s)

\* the listener configureEditor registers for settings.update
onSettingsUpdate(s, prevSettings) ==
  IF isDeepEqual(s.settings.governance, prevSettings.governance) THEN s
  ELSE IF s.listeners # 0 THEN subscribe(unsubscribe(s))
  ELSE s

\* an onSetupEditor without the isCreated test
onSetupEditor_again(s) ==
  [configureEditor([s EXCEPT !.isCreated = TRUE]) EXCEPT !.initialized = TRUE]

\* onSetupEditor(elementRef)
onSetupEditor(s) ==
  IF s.isCreated THEN s
  ELSE [configureEditor([s EXCEPT !.isCreated = TRUE]) EXCEPT !.initialized = TRUE]

\* ------------------------------------------------------------- events

SettingsValues == [governance : Governances, savingDelay : Delays]

\* the diagnostics lists the documents service delivers
WarningAt == [severity |-> "warning", message |-> "m", startLine |-> 1, startCharacter |-> 0,
              endLine |-> 1, endCharacter |-> 1]
ErrorAt == [severity |-> "error", message |-> "m", startLine |-> 0, startCharacter |-> 0,
            endLine |-> 0, endCharacter |-> 1]
DocumentDiagnostics == {<<WarningAt>>, <<ErrorAt>>}

\* the bounds: getModel(uri) may create a text model, a decoration may be added,
\* a subscription may be registered
MayGetModel(uri) == models[uri] # NoModel \/ uri \notin files \/ created[uri] < MaxModels
RECURSIVE held(_, _)
held(modelDecos, ms) ==
  IF ms = {} THEN 0
  ELSE LET model == CHOOSE m \in ms : TRUE
       IN Cardinality(modelDecos[model]) + held(modelDecos, ms \ {model})
MayDecorate(s) == held(s.modelDecorations, Handles) <= MaxDecos
MayResubscribe == debouncer.pending => staleTimers < MaxStale
PendingTimers == staleTimers + (IF debouncer.pending THEN 1 ELSE 0)

\* the burst history as the next handler finds it
Settled ==
  IF ~burst.done THEN burst
  ELSE IF PendingTimers = 0 THEN NoBurst
  ELSE [burst EXCEPT !.done = FALSE, !.clean = FALSE, !.mixed = TRUE]
AfterTimer ==
  [Settled EXCEPT !.done = TRUE,
                  !.clean = PendingTimers = 1 /\ ~Settled.mixed /\ Settled.edited = editorModel]

InitService ==
  /\ isCreated = FALSE
  /\ initialized = FALSE
  /\ files = Ids
  /\ settings = [governance |-> "g0", savingDelay |-> "d625"]
  /\ models = [uri \in Ids |-> NoModel]
  /\ viewStates = [u \in UriStrings |-> NoView]
  /\ decorations = [uri \in Ids |-> <<>>]
  /\ created = [uri \in Ids |-> 0]
  /\ disposals = [model \in Handles |-> 0]
  /\ content = [model \in Handles |-> FileContent]
  /\ editorModel = NoModel
  /\ editorView = FreshView
  /\ modelDecorations = [model \in Handles |-> {}]
  /\ markers = [uri \in Ids |-> <<>>]
  /\ listeners = 0
  /\ debouncer = NoDebouncer
  /\ staleTimers = 0
  /\ burst = NoBurst
  /\ parsed = <<>>
  /\ leftWith = [model \in Handles |-> NoView]
  /\ produced = [name |-> "none"]

Init ==
  /\ InitService
  /\ diagnosticsIn = <<>>

\* a component mounts the editor: onSetupEditor(elementRef)
SetupEditor ==
  /\ Becomes(onSetupEditor(State))
  /\ burst' = Settled
  /\ UNCHANGED <<leftWith, diagnosticsIn, produced>>

\* the files service registers a file (no listener of the editor service)
FsFileCreate(uri) ==
  /\ uri \notin files
  /\ Becomes([State EXCEPT !.files = @ \cup {uri}])
  /\ burst' = Settled
  /\ UNCHANGED <<leftWith, diagnosticsIn, produced>>

\* fs.file.remove
FsFileRemove(uri) ==
  /\ uri \in files
  /\ Becomes(removeModel([State EXCEPT !.files = @ \ {uri}], uri))
  /\ leftWith' = IF models[uri] = NoModel THEN leftWith
                 ELSE [leftWith EXCEPT ![models[uri]] = NoView]
  /\ burst' = Settled
  /\ UNCHANGED <<diagnosticsIn, produced>>

\* panels.panel.set-active-tab, for a tab of type editor
SetActiveTab(uri) ==
  LET s == onChangeTab(State, uri)
  IN /\ MayGetModel(uri)
     /\ Becomes(s)
     /\ leftWith' = IF editorModel # NoModel /\ s.editorModel # editorModel
                    THEN [leftWith EXCEPT ![editorModel] = editorView]
                    ELSE leftWith
     /\ burst' = Settled
     /\ UNCHANGED <<diagnosticsIn, produced>>

\* documents.document.create
DocumentCreate(uri, diagnostics) ==
  LET s == applyMarkersAndDecorations(State, uri, diagnostics)
  IN /\ MayGetModel(uri)
     /\ MayDecorate(s)
     /\ Becomes(s)
     /\ burst' = Settled
     /\ UNCHANGED <<leftWith, diagnosticsIn, produced>>

\* documents.document.update
DocumentUpdate(uri, diagnostics) ==
  LET s == applyMarkersAndDecorations(State, uri, diagnostics)
  IN /\ MayGetModel(uri)
     /\ MayDecorate(s)
     /\ Becomes(s)
     /\ burst' = Settled
     /\ UNCHANGED <<leftWith, diagnosticsIn, produced>>

\* documents.document.remove
DocumentRemove(uri) ==
  LET s == removeMarkersAndDecorations(State, uri)
  IN /\ MayGetModel(uri)
     /\ Becomes(s)
     /\ burst' = Settled
     /\ UNCHANGED <<leftWith, diagnosticsIn, produced>>

\* settings.update: the settings service has stored the new settings
SettingsUpdate(newSettings) ==
  LET s0 == [State EXCEPT !.settings = newSettings]
      s == IF isCreated THEN onSettingsUpdate(s0, settings) ELSE s0
  IN /\ newSettings # settings
     /\ MayResubscribe
     /\ Becomes(s)
     /\ burst' = Settled
     /\ UNCHANGED <<leftWith, diagnosticsIn, produced>>

\* the text of the shown model changes (typing, setValue): the listener of the live
\* subscription, the debounced handler, is called
ContentChange(text) ==
  /\ isCreated
  /\ editorModel # NoModel
  /\ text # content[editorModel]
  /\ Becomes(debounced([State EXCEPT !.content[editorModel] = text]))
  /\ burst' = [edited |-> editorModel, content |-> text,
               coalesced |-> debouncer.pending,
               mixed |-> Settled.mixed \/ staleTimers > 0,
               done |-> FALSE, clean |-> FALSE]
  /\ UNCHANGED <<leftWith, diagnosticsIn, produced>>

\* the timer of the live debounced handler fires
Flush ==
  /\ debouncer.pending
  /\ Becomes(onChangeContentCallback(fired(State)))
  /\ burst' = AfterTimer
  /\ UNCHANGED <<leftWith, diagnosticsIn, produced>>

\* a timer of the debounced handler of a disposed subscription fires
FlushStale ==
  /\ staleTimers > 0
  /\ Becomes(onChangeContentCallback([State EXCEPT !.staleTimers = @ - 1]))
  /\ burst' = AfterTimer
  /\ UNCHANGED <<leftWith, diagnosticsIn, produced>>

\* the user moves the cursor or scrolls
MoveCursor(view) ==
  /\ isCreated
  /\ editorModel # NoModel
  /\ view # editorView
  /\ Becomes([State EXCEPT !.editorView = view])
  /\ burst' = Settled
  /\ UNCHANGED <<leftWith, diagnosticsIn, produced>>

Next ==
  \/ SetupEditor
  \/ \E uri \in Ids : FsFileCreate(uri)
  \/ \E uri \in Ids : FsFileRemove(uri)
  \/ \E uri \in Ids : SetActiveTab(uri)
  \/ \E uri \in Ids, diagnostics \in DocumentDiagnostics : DocumentCreate(uri, diagnostics)
  \/ \E uri \in Ids, diagnostics \in DocumentDiagnostics : DocumentUpdate(uri, diagnostics)
  \/ \E uri \in Ids : DocumentRemove(uri)
  \/ \E newSettings \in SettingsValues : SettingsUpdate(newSettings)
  \/ \E text \in Contents : ContentChange(text)
  \/ Flush
  \/ FlushStale
  \/ \E view \in Views : MoveCursor(view)

Spec == Init /\ [][Next]_vars

\* createMarkersAndDecorations on every diagnostics list within the bounds
InitDiag ==
  /\ InitService
  /\ diagnosticsIn \in SeqsUpTo(Diagnostics, MaxDiags)

Compute ==
  /\ produced.name = "none"
  /\ produced' = [name |-> "done", result |-> createMarkersAndDecorations(diagnosticsIn)]
  /\ UNCHANGED <<isCreated, initialized, files, settings, models, viewStates, decorations,
                 created, disposals, content, editorModel, editorView, modelDecorations,
                 markers, listeners, debouncer, staleTimers, burst, parsed, leftWith,
                 diagnosticsIn>>

NextDiag == Compute

SpecDiag == InitDiag /\ [][NextDiag]_vars

\* the handlers of the model cache and the view-state cache: tabs, files and the cursor
NextTabs ==
  \/ SetupEditor
  \/ \E uri \in Ids : FsFileCreate(uri)
  \/ \E uri \in Ids : FsFileRemove(uri)
  \/ \E uri \in Ids : SetActiveTab(uri)
  \/ \E view \in Views : MoveCursor(view)

SpecTabs == Init /\ [][NextTabs]_vars

\* the handlers of the model cache and the decoration cache: tabs, files and documents
NextDocs ==
  \/ SetupEditor
  \/ \E uri \in Ids : FsFileCreate(uri)
  \/ \E uri \in Ids : FsFileRemove(uri)
  \/ \E uri \in Ids : SetActiveTab(uri)
  \/ \E uri \in Ids, diagnostics \in DocumentDiagnostics : DocumentCreate(uri, diagnostics)
  \/ \E uri \in Ids, diagnostics \in DocumentDiagnostics : DocumentUpdate(uri, diagnostics)
  \/ \E uri \in Ids : DocumentRemove(uri)

SpecDocs == Init /\ [][NextDocs]_vars

\* the handlers of the change synchronizer: edits, timers, tabs, settings and the
\* removal of files
NextSync ==
  \/ SetupEditor
  \/ \E uri \in Ids : FsFileRemove(uri)
  \/ \E uri \in Ids : SetActiveTab(uri)
  \/ \E newSettings \in SettingsValues : SettingsUpdate(newSettings)
  \/ \E text \in Contents : ContentChange(text)
  \/ Flush
  \/ FlushStale

SpecSync == Init /\ [][NextSync]_vars

\* the change synchronizer with its timers: a timer that was started elapses
SpecSyncFair == SpecSync /\ WF_vars(Flush) /\ WF_vars(FlushStale)

\* ------------------------------------------------------------- properties

\* the text models of a resource that were created and not disposed
Live(uri) == {model \in Handles : model[1] = uri /\ model[2] <= created[uri]
                                  /\ disposals[model] = 0}

\* a lookup of a resource whose text model is cached returns that model
C1_LookupReturnsCached ==
  \A uri \in Ids : models[uri] # NoModel => getModel(State, uri).model = models[uri]
\* the only text model of a resource created and not disposed is the cached one
C1_OneLiveModel == \A uri \in Ids : Live(uri) \subseteq {models[uri]}

\* C1. Single handle: a lookup of a resource whose text model is cached returns that
\* model, the cached model of a resource changes only by being disposed, and the only
\* text model of a resource created and not disposed is the cached one.
C1_SingleHandle ==
  /\ [](C1_LookupReturnsCached /\ C1_OneLiveModel)
  /\ [][\A uri \in Ids :
          models[uri] # NoModel =>
            \/ models'[uri] = models[uri]
            \/ disposals'[models[uri]] > disposals[models[uri]]]_vars

\* a tab switch and a document event have both looked up the one model of "a"
C1_Witness ==
  /\ created["a"] = 1
  /\ editorModel = <<"a", 1>>
  /\ models["a"] = <<"a", 1>>
  /\ markers["a"] # <<>>

\* no text model is disposed twice, and no cached one was disposed
C2_DisposedOnce == \A model \in Handles : disposals[model] <= 1
C2_CachedNeverDisposed ==
  \A uri \in Ids : models[uri] # NoModel => disposals[models[uri]] = 0
\* a lookup of a registered resource with no cached model creates and caches a new one
C2_LookupCreates ==
  \A uri \in Ids :
    (models[uri] = NoModel /\ uri \in files /\ created[uri] < MaxModels) =>
      LET got == getModel(State, uri)
      IN /\ got.model = <<uri, created[uri] + 1>>
         /\ got.state.models[uri] = got.model

\* C2. Clean removal: fs.file.remove for a resource whose text model is cached disposes
\* that model, for the first and only time, and evicts it; the model a later lookup
\* caches for the resource is a new one, never disposed.
C2_CleanRemoval ==
  /\ [](C2_DisposedOnce /\ C2_CachedNeverDisposed /\ C2_LookupCreates)
  /\ [][\A uri \in Ids :
          (uri \in files /\ uri \notin files' /\ models[uri] # NoModel) =>
            /\ disposals'[models[uri]] = 1
            /\ models'[uri] = NoModel]_vars

\* the first model of "a" was disposed, a lookup has cached a second one
C2_Witness ==
  /\ disposals[<<"a", 1>>] = 1
  /\ models["a"] = <<"a", 2>>
  /\ disposals[<<"a", 2>>] = 0

\* C5. View-state round trip: when a tab switch makes the editor show a text model it
\* has shown and left before, the view the editor shows is the one it showed when it
\* left that model.
C5_RoundTrip ==
  [][\A model \in Handles :
       (editorModel' = model /\ editorModel # model /\ leftWith[model] # NoView) =>
         editorView' = leftWith[model]]_vars

\* "a" was left with the view v1 and "b" with v0, and "a" is shown again with v1
C5_Witness ==
  /\ editorModel = <<"a", 1>>
  /\ leftWith[<<"a", 1>>] = "v1"
  /\ leftWith[<<"b", 1>>] = "v0"
  /\ editorView = "v1"

\* C10. Bound buffer is the cached handle: the text model the editor shows is the model
\* cached for its resource, and was not disposed.
C10_ShownIsCached ==
  editorModel # NoModel =>
    /\ models[editorModel[1]] = editorModel
    /\ disposals[editorModel] = 0

\* after a removal of "a" the editor shows the second model of "a"; "b" got diagnostics
C10_Witness ==
  /\ editorModel = <<"a", 2>>
  /\ disposals[<<"a", 1>>] = 1
  /\ markers["b"] # <<>>

\* C3. No orphaned decorations: once fs.file.remove was handled for a resource, and as
\* long as the resource is not registered again, the decoration cache holds no
\* decoration ids for it and no markers are set on it.
C3_NoOrphans ==
  \A uri \in Ids \ files : decorations[uri] = <<>> /\ markers[uri] = <<>>

\* C6. Decoration replacement: when the editor exists and a document event has applied
\* the diagnostics of a resource, the markers set on the resource are those made from
\* the diagnostics, the text model of the resource holds exactly the decorations made
\* from them, and the decoration cache names exactly these.
C6_Replaced ==
  [][\A uri \in Ids, diagnostics \in DocumentDiagnostics :
       ((DocumentCreate(uri, diagnostics) \/ DocumentUpdate(uri, diagnostics))
          /\ isCreated /\ models'[uri] # NoModel) =>
         LET made == createMarkersAndDecorations(diagnostics)
             model == models'[uri]
             ids == decorations'[uri]
         IN /\ markers'[uri] = made.markers
            /\ Len(ids) = Len(made.decorations)
            /\ \A i \in 1..Len(ids) :
                 /\ ids[i][1] = model
                 /\ [serial |-> ids[i][2], options |-> made.decorations[i]]
                      \in modelDecorations'[model]
            /\ Cardinality(modelDecorations'[model]) = Len(made.decorations)]_vars

C8_Attributed ==
  parsed # <<>> =>
    /\ parsed[1].uri = uriToString(burst.edited)
    /\ parsed[1].content = burst.content

\* the diagnostics handed to createMarkersAndDecorations, split by severity
IsError(diagnostic) == diagnostic.severity = "error"
IsNoError(diagnostic) == diagnostic.severity # "error"
ExpectedClass(severity) ==
  CASE severity = "warning" -> {"diagnostic-warning"}
    [] severity = "information" -> {"diagnostic-information"}
    [] severity = "hint" -> {"diagnostic-hint"}
    [] OTHER -> {"diagnostic-warning", "diagnostic-information", "diagnostic-hint"}
Shifted(diagnostic) ==
  <<diagnostic.startLine + 1, diagnostic.startCharacter + 1,
    diagnostic.endLine + 1, diagnostic.endCharacter + 1>>

\* C7. Diagnostics partition: the markers are the diagnostics of error severity, in
\* their order, the decorations are the other diagnostics, in their order; every
\* coordinate is the diagnostic's plus one; the glyph class of a decoration is the one
\* of its severity.
C7_Partition ==
  produced.name = "done" =>
    LET errors == SelectSeq(diagnosticsIn, IsError)
        others == SelectSeq(diagnosticsIn, IsNoError)
        made == produced.result
    IN /\ Len(made.markers) = Len(errors)
       /\ Len(made.decorations) = Len(others)
       /\ Len(made.markers) + Len(made.decorations) = Len(diagnosticsIn)
       /\ \A i \in 1..Len(errors) :
            <<made.markers[i].startLineNumber, made.markers[i].startColumn,
              made.markers[i].endLineNumber, made.markers[i].endColumn>>
              = Shifted(errors[i])
       /\ \A i \in 1..Len(others) :
            /\ made.decorations[i].range = Shifted(others[i])
            /\ made.decorations[i].glyphMarginClassName \in ExpectedClass(others[i].severity)

\* an error and a hint were handed over: one marker, one decoration
C7_Witness ==
  /\ produced.name = "done"
  /\ Len(diagnosticsIn) = 2
  /\ diagnosticsIn[1].severity = "error"
  /\ diagnosticsIn[2].severity = "hint"
  /\ Len(produced.result.markers) = 1
  /\ Len(produced.result.decorations) = 1

\* the positions of the diagnostics of a severity that is none of the four
Unrecognized ==
  {i \in 1..Len(diagnosticsIn) :
     diagnosticsIn[i].severity \notin {"error", "warning", "information", "hint"}}

C11_UnknownTabIsNoOp ==
  [][\A uri \in Ids :
       (SetActiveTab(uri) /\ models[uri] = NoModel /\ uri \notin files) =>
         /\ editorModel' = editorModel
         /\ editorView' = editorView
         /\ models' = models
         /\ created' = created
         /\ content' = content]_vars

\* "b" is shown with the cursor moved, "a" is unknown and was never created, and a tab
\* switch has saved the view of "b" without leaving it
C11_Witness ==
  /\ "a" \notin files
  /\ created["a"] = 0
  /\ editorModel = <<"b", 1>>
  /\ editorView = "v1"
  /\ viewStates["file:///b"] = "v1"
  /\ leftWith[<<"b", 1>>] = NoView

\* the view state cached for a text model that is cached, was shown and is shown no
\* more is the view the editor showed when it last left the model
C12_CachedIsLastLeft ==
  \A model \in Handles :
    (models[model[1]] = model /\ editorModel # model /\ leftWith[model] # NoView) =>
      viewStates[uriToString(model)] = leftWith[model]

\* C12. Snapshot saved before rebinding: every tab switch made while the editor shows a
\* text model stores, under the uri of that model, the view the editor showed before
\* the switch; so the view state cached for a model the editor has left is the one of
\* the most recent departure.
C12_SavedBeforeRebinding ==
  /\ []C12_CachedIsLastLeft
  /\ [][\A uri \in Ids :
          (SetActiveTab(uri) /\ isCreated /\ editorModel # NoModel) =>
            viewStates'[uriToString(editorModel)] = editorView]_vars

\* "b" was left with the cursor moved, then "a" with its fresh view, and "b" is shown
\* again with the view it was left with: each cached view state is the last one left
C12_Witness ==
  /\ editorModel = <<"b", 1>>
  /\ editorView = "v1"
  /\ leftWith[<<"b", 1>>] = "v1"
  /\ leftWith[<<"a", 1>>] = "v0"
  /\ viewStates["file:///a"] = "v0"
  /\ viewStates["file:///b"] = "v1"

\* C13. Delay follows current settings: the debounced handler a content change calls
\* has the saving delay of the settings of that moment.
C13_DelayIsCurrent ==
  [][(\E text \in Contents : ContentChange(text)) =>
       /\ debouncer'.pending
       /\ debouncer'.delay = settings.savingDelay]_vars

\* C14. At most one pending flush: at most one timer of a debounced handler is pending.
C14_OnePendingFlush == PendingTimers <= 1

\* once the editor is set up exactly one onDidChangeModelContent subscription is live,
\* before that none
C15_OneListener == listeners = (IF isCreated THEN 1 ELSE 0)

\* C15. Single live subscription: at most one content-change subscription is live; a
\* settings.update with a different governance leaves one subscription, with a new
\* debounced handler made from the new settings, the old one disposed (a timer it
\* had pending fires without it); a settings.update with an equal governance leaves
\* the subscription, its handler and the timers as they were.
C15_SingleSubscription ==
  /\ []C15_OneListener
  /\ [][(settings' # settings /\ isCreated) =>
          IF settings'.governance = settings.governance
          THEN /\ listeners' = listeners
               /\ debouncer' = debouncer
               /\ staleTimers' = staleTimers
          ELSE /\ listeners' = 1
               /\ debouncer' = [delay |-> settings'.savingDelay, pending |-> FALSE]
               /\ staleTimers' = staleTimers + (IF debouncer.pending THEN 1 ELSE 0)]_vars

\* the governance was changed with a timer pending, then the saving delay alone: one
\* subscription, whose handler still has the delay of the resubscription
C15_Witness ==
  /\ listeners = 1
  /\ settings = [governance |-> "g1", savingDelay |-> "d625"]
  /\ debouncer.delay = "d1000"
  /\ staleTimers = 1

\* a parse call made by a fired timer is the only one, and carries the uri and the
\* text of the model the editor shows
C16_FlushCarriesShown ==
  parsed # <<>> =>
    /\ editorModel # NoModel
    /\ parsed = <<[uri |-> uriToString(editorModel), content |-> content[editorModel]]>>

\* C16. Flush eventually happens: with timers that elapse, once a content change has
\* started a timer the parser is eventually called, unless the editor is found with no
\* model; the call carries the uri of the shown model and its text at that moment.
C16_EventuallyFlushed ==
  /\ []C16_FlushCarriesShown
  /\ (PendingTimers > 0) ~> (parsed # <<>> \/ editorModel = NoModel)

\* the timer of a single content change has fired and the changed text was parsed
C16_Witness ==
  /\ burst.done
  /\ ~burst.coalesced
  /\ editorModel = <<"a", 1>>
  /\ parsed = <<[uri |-> "file:///a", content |-> "c1"]>>

\* C17. Diagnostics are applied per resource: a document event for a resource, handled
\* while the editor shows the text model of another resource, leaves the markers of
\* that other resource, the decorations its model holds and its entry of the
\* decoration cache as they were.
C17_OtherResourceUntouched ==
  [][\A uri \in Ids :
       (/\ \/ \E diagnostics \in DocumentDiagnostics :
                DocumentCreate(uri, diagnostics) \/ DocumentUpdate(uri, diagnostics)
           \/ DocumentRemove(uri)
        /\ editorModel # NoModel
        /\ editorModel[1] # uri) =>
         /\ markers'[editorModel[1]] = markers[editorModel[1]]
         /\ modelDecorations'[editorModel] = modelDecorations[editorModel]
         /\ decorations'[editorModel[1]] = decorations[editorModel[1]]]_vars

\* C18, as stated: documents.document.remove leaves the cache of text models as it was.
C18_ClearKeepsModels ==
  [][\A uri \in Ids : DocumentRemove(uri) => models' = models]_vars

\* C18, amended: documents.document.remove leaves the cache of text models as it was
\* when the resource has a cached model or is unknown to the files service (as after
\* fs.file.remove); for a known resource with no cached model its lookup creates the
\* model and caches it, and no other entry changes.
C18_ClearCreatesOnlyForKnownFile ==
  \A uri \in Ids :
    MayGetModel(uri) =>
      removeMarkersAndDecorations(State, uri).models =
        IF models[uri] = NoModel /\ uri \in files
        THEN [models EXCEPT ![uri] = <<uri, created[uri] + 1>>]
        ELSE models

\* "a" is known and a lookup made before the editor exists has cached its model; "b"
\* was removed, is unknown, and no lookup has made it a second model
C18_Witness ==
  /\ ~isCreated
  /\ models["a"] = <<"a", 1>>
  /\ files = {"a"}
  /\ models["b"] = NoModel
  /\ created["b"] = 1

\* C19. No stale view state after removal: the view-state cache holds no view state
\* for a resource that was removed (and is not registered again).
C19_NoStaleViewState ==
  \A uri \in Ids \ files : viewStates["file:///" \o uri] = NoView

\* C20. Setup is idempotent: a second onSetupEditor call changes nothing, so the editor
\* is created and configured (one content-change subscription, registered with the
\* settings listener) at most once; appState.initialized is set only with the editor
\* created.
C20_SetupIdempotent ==
  /\ onSetupEditor(onSetupEditor(State)) = onSetupEditor(State)
  /\ isCreated => onSetupEditor(State) = State
  /\ onSetupEditor(State).listeners = 1
  /\ listeners <= 1
  /\ initialized => isCreated

\* the editor is set up and in use, with its one subscription: "a" is shown, its text
\* was changed and the timer is pending
C20_Witness ==
  /\ isCreated
  /\ initialized
  /\ listeners = 1
  /\ editorModel = <<"a", 1>>
  /\ content[<<"a", 1>>] = "c1"
  /\ debouncer = [delay |-> "d625", pending |-> TRUE]
====
